---- MODULE Spec2Model ----
(***************************************************************************)
(* The C front end of clara (src/clara/c_parser.py): a recursive-descent   *)
(* visitor over a pycparser syntax tree that builds, per function, a       *)
(* location/transition automaton with ordered variable updates.            *)
(*                                                                         *)
(* Syntax-tree nodes, expression values and the parser object are records. *)
(* Every visit_X of CParser is an operator visit_X(st, node, prefix) that  *)
(* takes the parser object st and returns R(st', result).  A raised        *)
(* exception is the field st.err; once it is set every later step leaves   *)
(* the parser untouched (the exception unwinds the whole traversal).       *)
(* The methods of the base class Parser are not part of src/ and are       *)
(* modelled from the specification text.                                   *)
(***************************************************************************)
EXTENDS Integers, Sequences, FiniteSets, TLC

VARIABLES ast, fncs, fnc, loc, loops, postincdec, inswitch, fncdef,
          nobcs, hasbcs, warns, err, log

vars == <<ast, fncs, fnc, loc, loops, postincdec, inswitch, fncdef,
          nobcs, hasbcs, warns, err, log>>

Max(a, b) == IF a >= b THEN a ELSE b
Min(a, b) == IF a <= b THEN a ELSE b

(***************************************************************************)
(* pycparser c_ast nodes, with the attributes the visitors read.           *)
(***************************************************************************)
NoneNode == [k |-> "None"]
ID(name) == [k |-> "ID", name |-> name]
Constant(value) == [k |-> "Constant", value |-> value]
UnaryOp(op, expr) == [k |-> "UnaryOp", op |-> op, expr |-> expr]
BinaryOp(op, left, right) == [k |-> "BinaryOp", op |-> op, left |-> left, right |-> right]
ArrayRef(name, subscript) == [k |-> "ArrayRef", name |-> name, subscript |-> subscript]
TernaryOp(cond, iftrue, iffalse) == [k |-> "TernaryOp", cond |-> cond, iftrue |-> iftrue, iffalse |-> iffalse]
Assignment(op, lvalue, rvalue) == [k |-> "Assignment", op |-> op, lvalue |-> lvalue, rvalue |-> rvalue]
ExprList(exprs) == [k |-> "ExprList", exprs |-> exprs]
InitList(exprs) == [k |-> "InitList", exprs |-> exprs]
FuncCall(name, args) == [k |-> "FuncCall", name |-> name, args |-> args]
Compound(block_items) == [k |-> "Compound", block_items |-> block_items]
If(cond, iftrue, iffalse) == [k |-> "If", cond |-> cond, iftrue |-> iftrue, iffalse |-> iffalse]
While(cond, stmt) == [k |-> "While", cond |-> cond, stmt |-> stmt]
DoWhile(cond, stmt) == [k |-> "DoWhile", cond |-> cond, stmt |-> stmt]
For(init, cond, next, stmt) == [k |-> "For", init |-> init, cond |-> cond, next |-> next, stmt |-> stmt]
Switch(cond, stmt) == [k |-> "Switch", cond |-> cond, stmt |-> stmt]
Case(expr, stmts) == [k |-> "Case", expr |-> expr, stmts |-> stmts]
Default(stmts) == [k |-> "Default", stmts |-> stmts]
Break == [k |-> "Break"]
Continue == [k |-> "Continue"]
Return(expr) == [k |-> "Return", expr |-> expr]
Label(name, stmt) == [k |-> "Label", name |-> name, stmt |-> stmt]
Goto(name) == [k |-> "Goto", name |-> name]
EmptyStatement == [k |-> "EmptyStatement"]
IdentifierType(names) == [k |-> "IdentifierType", names |-> names]
TypeDecl(declname, type) == [k |-> "TypeDecl", declname |-> declname, type |-> type]
ArrayDecl(type, dim) == [k |-> "ArrayDecl", type |-> type, dim |-> dim]
Typename(type) == [k |-> "Typename", type |-> type]
Decl(type, init) == [k |-> "Decl", type |-> type, init |-> init]
FuncDecl(args, type) == [k |-> "FuncDecl", args |-> args, type |-> type]
FuncDef(decl, body) == [k |-> "FuncDef", decl |-> decl, body |-> body]
ParamList(params) == [k |-> "ParamList", params |-> params]

(***************************************************************************)
(* Values a visitor returns: the expressions of clara.model (Var, Const,   *)
(* Op), and Python's None, str, list and (name, type, dim) tuple.          *)
(***************************************************************************)
NoneV == [t |-> "None"]
Var(name) == [t |-> "Var", name |-> name]
Const(value) == [t |-> "Const", value |-> value]
Op(name, args) == [t |-> "Op", name |-> name, args |-> args]
StrV(s) == [t |-> "Str", s |-> s]
ListV(items) == [t |-> "List", items |-> items]
TupleV(name, type, dim) == [t |-> "Tuple", name |-> name, type |-> type, dim |-> dim]
\* a registered parameter (name, type)
Pair(name, type) == [t |-> "Pair", name |-> name, type |-> type]
IsExpr(v) == v.t \in {"Var", "Const", "Op"}
\* Python truth of a visitor's result: None and the empty list are false
Truthy(v) == ~(v.t = "None" \/ (v.t = "List" /\ v.items = <<>>))

VAR_IN == "$in"
VAR_OUT == "$out"
VAR_RET == "$ret"

CONSTS == {"EOF"}
LIB_FNCS == {"floor", "ceil", "pow", "abs", "sqrt", "log2", "log10", "log", "exp"}

(***************************************************************************)
(* Exceptions.  line says whether the exception carries a source line.     *)
(***************************************************************************)
NoErr == [t |-> "ok", msg |-> "", line |-> FALSE]
NotSupported(msg, line) == [t |-> "NotSupported", msg |-> msg, line |-> line]
AttributeError(msg) == [t |-> "AttributeError", msg |-> msg, line |-> FALSE]
AssertionError(msg) == [t |-> "AssertionError", msg |-> msg, line |-> FALSE]
Ok(st) == st.err.t = "ok"
Raise(st, e) == IF Ok(st) THEN [st EXCEPT !.err = e] ELSE st
\* an assignment to the parser object takes effect only while no exception unwinds
Upd(st, new) == IF Ok(st) THEN new ELSE st
R(st, res) == [st |-> st, res |-> res]

(***************************************************************************)
(* The base class Parser and the automaton it fills.                       *)
(* A function record holds its name, parameters, return type, the update   *)
(* list of each location (locexprs[l]), its transitions and its types.     *)
(***************************************************************************)
TrueGuard == [t |-> "True"]
FalseGuard == [t |-> "False"]
Function(name, params, rtype) ==
    [name |-> name, params |-> params, rtype |-> rtype,
     locexprs |-> <<>>, trans |-> {}, types |-> <<>>]

addwarn(st, msg) == Upd(st, [st EXCEPT !.warns = Append(@, msg)])

addfnc(st, name, params, rtype) ==
    Upd(st, [st EXCEPT !.fncs = Append(@, Function(name, params, rtype)),
                       !.fnc = Len(st.fncs) + 1])

endfnc(st) == Upd(st, [st EXCEPT !.fnc = 0, !.loc = 0])

addloc(st) ==
    IF ~Ok(st) THEN st
    ELSE IF st.fnc = 0 THEN Raise(st, AssertionError("No active fnc"))
    ELSE [st EXCEPT !.fncs[st.fnc].locexprs = Append(@, <<>>),
                    !.loc = Len(st.fncs[st.fnc].locexprs) + 1]

\* list.insert(p, e) for a position 0 <= p <= Len(s)
InsertAt(s, p, e) == SubSeq(s, 1, p) \o <<e>> \o SubSeq(s, p + 1, Len(s))

\* idx = 0 stands for idx=None (append); a negative idx counts from the end
addexpr(st, name, expr, idx) ==
    IF ~Ok(st) THEN st
    ELSE IF st.fnc = 0 \/ st.loc = 0 THEN Raise(st, AssertionError("No active fnc"))
    ELSE LET l == st.fncs[st.fnc].locexprs[st.loc]
             p == IF idx = 0 THEN Len(l) ELSE Max(0, Len(l) + idx)
         IN [st EXCEPT !.fncs[st.fnc].locexprs[st.loc] =
                          InsertAt(l, p, [var |-> name, expr |-> expr])]

exprsat(st) == IF st.fnc = 0 \/ st.loc = 0 THEN <<>> ELSE st.fncs[st.fnc].locexprs[st.loc]

numexprs(st) == Len(exprsat(st))

rmlastexprs(st, num) ==
    IF ~Ok(st) \/ st.fnc = 0 \/ st.loc = 0 THEN st
    ELSE [st EXCEPT !.fncs[st.fnc].locexprs[st.loc] = SubSeq(@, 1, Len(@) - num)]

addtrans(st, loc1, cond, loc2) ==
    IF ~Ok(st) \/ st.fnc = 0 THEN st
    ELSE [st EXCEPT !.fncs[st.fnc].trans = @ \cup {[from |-> loc1, cond |-> cond, to |-> loc2]}]

HasType(st, v) == \E i \in 1..Len(st.fncs[st.fnc].types) : st.fncs[st.fnc].types[i][1] = v

addtype(st, v, type) ==
    IF ~Ok(st) THEN st
    ELSE IF st.fnc = 0 THEN Raise(st, AssertionError("No active fnc"))
    ELSE IF HasType(st, v) THEN Raise(st, AssertionError("Duplicate type"))
    ELSE [st EXCEPT !.fncs[st.fnc].types = Append(@, <<v, type>>)]

addloop(st, entry) == Upd(st, [st EXCEPT !.loops = Append(@, entry)])
poploop(st) == Upd(st, [st EXCEPT !.loops = SubSeq(@, 1, Len(@) - 1)])
\* the innermost loop-stack entry, <<>> (false) when there is none
lastloop(st) == IF st.loops = <<>> THEN <<>> ELSE st.loops[Len(st.loops)]

fncnames(st) == {st.fncs[i].name : i \in 1..Len(st.fncs)}

(***************************************************************************)
(* Python string helpers.                                                  *)
(***************************************************************************)
StartsWith(s, p) == Len(s) >= Len(p) /\ SubSeq(s, 1, Len(p)) = p

RECURSIVE replace(_, _, _)
\* str.replace(old, new): left to right, non-overlapping
replace(s, old, new) ==
    IF s = "" THEN ""
    ELSE IF StartsWith(s, old) THEN new \o replace(SubSeq(s, Len(old) + 1, Len(s)), old, new)
    ELSE SubSeq(s, 1, 1) \o replace(SubSeq(s, 2, Len(s)), old, new)

EndsWith(s, p) == Len(s) >= Len(p) /\ SubSeq(s, Len(s) - Len(p) + 1, Len(s)) = p

RECURSIVE join(_, _)
\* sep.join(names)
join(names, sep) ==
    IF names = <<>> THEN ""
    ELSE IF Len(names) = 1 THEN names[1]
    ELSE names[1] \o sep \o join(Tail(names), sep)

\* the conversions of the scanf pattern, in the order the alternation tries them
SCANF_ALTS == <<"d", "i", "li", "lli", "ld", "lld", "lf", "f", "s", "c">>

\* the first alternative matching at the head of s ("" when none does)
MatchAlt(s) ==
    LET hits == {i \in 1..Len(SCANF_ALTS) : StartsWith(s, "%" \o SCANF_ALTS[i])}
    IN IF hits = {} THEN ""
       ELSE "%" \o SCANF_ALTS[CHOOSE i \in hits : \A j \in hits : i <= j]

RECURSIVE findall(_)
\* re.findall of the conversion pattern: the matches, left to right
findall(s) ==
    IF s = "" THEN <<>>
    ELSE LET m == MatchAlt(s)
         IN IF m = "" THEN findall(SubSeq(s, 2, Len(s)))
            ELSE <<m>> \o findall(SubSeq(s, Len(m) + 1, Len(s)))

TYPE_SYNONYMS(name) ==
    CASE name = "double" -> "float"
      [] name \in {"long_long_int", "long_int", "long", "unsigned", "unsigned_int",
                   "unsigned_long_int", "unsigned_long"} -> "int"
      [] OTHER -> name

(***************************************************************************)
(* The visitors.                                                           *)
(***************************************************************************)
RECURSIVE visit(_, _, _)
RECURSIVE visit_expr(_, _, _)
RECURSIVE map_visit_expr(_, _, _, _)
RECURSIVE visit_items(_, _, _, _)
RECURSIVE visit_if(_, _, _, _, _, _)
RECURSIVE visit_loop(_, _, _, _, _, _, _, _)
RECURSIVE visit_Compound(_, _, _)
RECURSIVE visit_Assignment(_, _, _)
RECURSIVE visit_BinaryOp(_, _, _)
RECURSIVE visit_UnaryOp(_, _, _)
RECURSIVE visit_ArrayRef(_, _, _)
RECURSIVE visit_TernaryOp(_, _, _)
RECURSIVE visit_Switch(_, _, _)
RECURSIVE visit_FuncCall(_, _, _)
RECURSIVE visit_ExprList(_, _, _)
RECURSIVE visit_InitList(_, _, _)
RECURSIVE visit_If(_, _, _)
RECURSIVE visit_While(_, _, _)
RECURSIVE visit_DoWhile(_, _, _)
RECURSIVE visit_For(_, _, _)
RECURSIVE visit_Return(_, _, _)
RECURSIVE visit_Label(_, _, _)
RECURSIVE visit_Decl(_, _, _)
RECURSIVE visit_ArrayDecl(_, _, _)
RECURSIVE visit_TypeDecl(_, _, _)
RECURSIVE visit_Typename(_, _, _)
RECURSIVE visit_FuncDecl(_, _, _)
RECURSIVE visit_params(_, _, _, _, _)

\* Parser.visit_expr: the visit of a node in expression position
visit_expr(st, node, prefix) == visit(st, node, prefix)

visit_ID(st, node, prefix) ==
    R(st, IF node.name \in CONSTS THEN Const(node.name) ELSE Var(node.name))

visit_Constant(st, node, prefix) == R(st, Const(node.value))

visit_EmptyStatement(st, node, prefix) == R(st, NoneV)

visit_BinaryOp(st, node, prefix) ==
    LET l == visit_expr(st, node.left, prefix)
    IN IF ~Ok(l.st) THEN R(l.st, NoneV)
       ELSE LET r == visit_expr(l.st, node.right, prefix)
            IN IF ~Ok(r.st) THEN R(r.st, NoneV)
               ELSE R(r.st, Op(node.op, <<l.res, r.res>>))

\* node.op[1]: the arithmetic operator of ++, --, p++ and p--
opchar(op) == IF op \in {"++", "p++"} THEN "+" ELSE "-"

visit_UnaryOp(st, node, prefix) ==
    LET e == visit_expr(st, node.expr, prefix)
    IN IF node.op \in {"++", "--"}
       THEN IF e.res.t # "Var"
            THEN R(Raise(e.st, NotSupported("++/-- supported only for Vars", TRUE)), NoneV)
            ELSE R(addexpr(e.st, e.res.name, Op(opchar(node.op), <<e.res, Const("1")>>), 0),
                   e.res)
       ELSE IF node.op \in {"p++", "p--"}
       THEN IF e.res.t # "Var"
            THEN R(Raise(e.st, NotSupported("p++/p-- supported only for Vars", TRUE)), NoneV)
            ELSE LET s1 == addexpr(e.st, e.res.name,
                                   Op(opchar(node.op), <<e.res, Const("1")>>), 0)
                 IN R(Upd(s1, [s1 EXCEPT !.postincdec = @ + 1]), e.res)
       ELSE R(e.st, Op(node.op, <<e.res>>))

visit_ArrayRef(st, node, prefix) ==
    LET name == visit_expr(st, node.name, prefix)
    IN IF name.res.t # "Var"
       THEN R(Raise(name.st, NotSupported("ArrayName", FALSE)), NoneV)
       ELSE LET sub == visit_expr(name.st, node.subscript, prefix)
            IN R(sub.st, Op("[]", <<name.res, sub.res>>))

\* the kinds of assignment operator: "=", "X=" with a one-character X, any other
assignop(op) ==
    IF op = "=" THEN "plain"
    ELSE IF Len(op) = 2 /\ SubSeq(op, 2, 2) = "=" THEN "compound"
    ELSE "other"

visit_Assignment(st, node, prefix) ==
    LET lv == visit_expr(st, node.lvalue, prefix)
    IN IF ~Ok(lv.st) THEN R(lv.st, NoneV)
       ELSE
       LET saved == lv.st.postincdec
           rv == visit([lv.st EXCEPT !.postincdec = 0], node.rvalue, prefix)
       IN IF ~Ok(rv.st) THEN R(rv.st, NoneV)
          ELSE
          LET n == rv.st.postincdec
              s2 == [rv.st EXCEPT !.postincdec = saved]
              lvalue == lv.res
              rvalue0 == IF Truthy(rv.res) THEN rv.res ELSE Const("?")
              rvalue1 == IF assignop(node.op) = "compound"
                         THEN Op(SubSeq(node.op, 1, 1), <<lvalue, rvalue0>>)
                         ELSE rvalue0
              isvar == lvalue.t = "Var"
              isarr == lvalue.t = "Op" /\ lvalue.name = "[]" /\ lvalue.args[1].t = "Var"
              rvalue2 == IF isvar THEN rvalue1
                         ELSE Op("ArrayAssign", <<lvalue.args[1], lvalue.args[2], rvalue1>>)
              rvalue3 == IF rvalue2.t = "List" THEN rvalue2.items[Len(rvalue2.items)]
                         ELSE rvalue2
              lval == IF isvar THEN lvalue ELSE lvalue.args[1]
          IN IF assignop(node.op) = "other"
             THEN R(Raise(s2, NotSupported("Assignment operator", TRUE)), NoneV)
             ELSE IF ~(isvar \/ isarr)
             THEN R(Raise(s2, NotSupported("Assignment lvalue", TRUE)), NoneV)
             ELSE R(addexpr(s2, lval.name, rvalue3, IF n # 0 THEN -n ELSE 0), lvalue)

\* visit_TernaryOp: the branches are first built as values; when that scheduled
\* updates they are removed and the node is built as an if statement.  The log
\* entry records the update list on entry and at the call of visit_if.
visit_TernaryOp(st, node, prefix) ==
    LET cd == visit_expr(st, node.cond, prefix)
    IN IF ~Ok(cd.st) THEN R(cd.st, NoneV)
       ELSE
       LET n == numexprs(cd.st)
           ift == visit_expr(cd.st, node.iftrue, prefix)
       IN IF ~Ok(ift.st) THEN R(ift.st, NoneV)
          ELSE
          LET iff == visit_expr(ift.st, node.iffalse, prefix)
          IN IF ~Ok(iff.st) THEN R(iff.st, NoneV)
             ELSE IF numexprs(iff.st) > n
             THEN LET s1 == rmlastexprs(iff.st, numexprs(iff.st) - n)
                      s2 == [s1 EXCEPT !.log = Append(@, [e |-> "ternary_if", node |-> node,
                                                          loc |-> s1.loc,
                                                          entry |-> exprsat(st),
                                                          atcall |-> exprsat(s1)])]
                  IN visit_if(s2, node, node.cond, node.iftrue, node.iffalse, prefix)
             ELSE R(iff.st, Op("ite", <<cd.res, ift.res, iff.res>>))

\* Parser.visit_if: the condition is built at the current location, each branch
\* gets a location of its own and both converge at a new join location; a missing
\* else is the false edge straight to the join
visit_if(st, node, cond, true, false, prefix) ==
    LET preloc == st.loc
        cd == visit_expr(st, cond, prefix)
    IN IF ~Ok(cd.st) THEN R(cd.st, NoneV)
       ELSE
       LET s1 == addloc(cd.st)
           trueloc == s1.loc
           t == visit(s1, true, prefix)
       IN IF ~Ok(t.st) THEN R(t.st, NoneV)
          ELSE
          LET afterloc1 == t.st.loc
              s2 == addloc(t.st)
              afterloc == s2.loc
              s3 == addtrans(addtrans(s2, preloc,
                                      [t |-> "Cond", pos |-> TRUE, e |-> cd.res], trueloc),
                             afterloc1, TrueGuard, afterloc)
          IN IF false.k # "None"
             THEN LET s4 == addloc(s3)
                      falseloc == s4.loc
                      f == visit(s4, false, prefix)
                  IN IF ~Ok(f.st) THEN R(f.st, NoneV)
                     ELSE
                     LET afterloc2 == f.st.loc
                         s5 == addtrans(addtrans(f.st, preloc,
                                                 [t |-> "Cond", pos |-> FALSE, e |-> cd.res],
                                                 falseloc),
                                        afterloc2, TrueGuard, afterloc)
                     IN R([s5 EXCEPT !.loc = afterloc], NoneV)
             ELSE LET s4 == addtrans(s3, preloc,
                                     [t |-> "Cond", pos |-> FALSE, e |-> cd.res], afterloc)
                  IN R([s4 EXCEPT !.loc = afterloc], NoneV)

\* Parser.visit_loop: init runs at the current location; the condition, the exit,
\* the update clause (when present) and the body each get a location; the entry
\* <<condition, exit, continue-target>> is on the loop stack while the body is
\* visited (0 stands for no update clause); the exit is the location afterwards
visit_loop(st, node, init, cond, next, body, do, prefix) ==
    LET i == visit(st, init, prefix)
    IN IF ~Ok(i.st) THEN R(i.st, NoneV)
       ELSE
       LET preloc == i.st.loc
           s1 == addloc(i.st)
           condloc == s1.loc
           cd == visit_expr(s1, cond, prefix)
       IN IF ~Ok(cd.st) THEN R(cd.st, NoneV)
          ELSE
          LET condexpr == IF Truthy(cd.res) THEN cd.res ELSE Const("1")
              s2 == addloc(cd.st)
              exitloc == s2.loc
              s3 == IF next.k # "None" THEN addloc(s2) ELSE s2
              nextloc == IF next.k # "None" THEN s3.loc ELSE 0
              nx == visit(s3, next, prefix)
          IN IF ~Ok(nx.st) THEN R(nx.st, NoneV)
             ELSE
             LET s4 == addloc(nx.st)
                 bodyloc == s4.loc
                 b == visit(addloop(s4, <<condloc, exitloc, nextloc>>), body, prefix)
             IN IF ~Ok(b.st) THEN R(b.st, NoneV)
                ELSE
                LET s5 == poploop(b.st)
                    afterloc == s5.loc
                    s6 == addtrans(addtrans(addtrans(s5, preloc, TrueGuard,
                                                     IF do THEN bodyloc ELSE condloc),
                                            condloc,
                                            [t |-> "Cond", pos |-> TRUE, e |-> condexpr],
                                            bodyloc),
                                   condloc, [t |-> "Cond", pos |-> FALSE, e |-> condexpr],
                                   exitloc)
                    s7 == IF nextloc # 0
                          THEN addtrans(addtrans(s6, afterloc, TrueGuard, nextloc),
                                        nextloc, TrueGuard, condloc)
                          ELSE addtrans(s6, afterloc, TrueGuard, condloc)
                IN R([s7 EXCEPT !.loc = exitloc], NoneV)

\* the loop of visit_Compound over block_items[i..]
visit_items(st, items, i, prefix) ==
    IF ~Ok(st) \/ i > Len(items) THEN st
    ELSE LET r == visit(st, items[i], prefix)
         IN IF ~Ok(r.st) THEN r.st
            ELSE IF r.res.t = "Op" /\ r.res.name = "FuncCall"
            THEN visit_items(addexpr(r.st, "_", r.res, 0), items, i + 1, prefix)
            ELSE visit_items(r.st, items, i + 1, prefix)

visit_Compound(st, node, prefix) == R(visit_items(st, node.block_items, 1, prefix), NoneV)

RECURSIVE convert(_, _)
\* convert(i) of visit_Switch: the if chain of block_items[i..] (0-based i).
\* ok is false when reading item.stmts raises (the item is no case or default).
convert(node, i) ==
    LET items == node.stmt.block_items
        n == Len(items)
    IN IF i >= n THEN [ok |-> TRUE, node |-> NoneNode]
       ELSE LET item == items[i + 1]
            IN IF item.k \notin {"Case", "Default"} THEN [ok |-> FALSE, node |-> NoneNode]
               ELSE IF i = n - 1 /\ item.k = "Default"
               THEN [ok |-> TRUE, node |-> Compound(item.stmts)]
               ELSE IF item.k = "Case"
               THEN LET next == convert(node, i + 1)
                    IN IF ~next.ok THEN next
                       ELSE [ok |-> TRUE,
                             node |-> If(BinaryOp("==", node.cond, item.expr),
                                         Compound(item.stmts), next.node)]
               ELSE [ok |-> TRUE, node |-> NoneNode]

\* an entry of the log
Note(st, ev) == [st EXCEPT !.log = Append(@, ev)]

\* a switch that leaves the flag set when it returns
visit_Switch_norestore(st, node, prefix) ==
    LET cd == visit_expr(st, node.cond, prefix \o "switch.")
    IN IF ~Ok(cd.st) THEN R(cd.st, NoneV)
       ELSE IF node.stmt.k # "Compound"
       THEN R(Raise(cd.st, NotSupported("Switch statement", TRUE)), NoneV)
       ELSE IF node.stmt.block_items = <<>>
       THEN R(Raise(cd.st, [t |-> "TypeError", msg |-> "len(None)", line |-> FALSE]), NoneV)
       ELSE LET stmt == convert(node, 0)
            IN IF ~stmt.ok THEN R(Raise(cd.st, AttributeError("stmts")), NoneV)
               ELSE IF stmt.node.k = "None"
               THEN R(Raise(cd.st, NotSupported("Switch statement", TRUE)), NoneV)
               ELSE LET insw == cd.st.inswitch
                        res == visit(Note([cd.st EXCEPT !.inswitch = TRUE],
                                          [e |-> "switch_enter", entry |-> insw]),
                                     stmt.node, prefix \o "switch.")
                    IN IF ~Ok(res.st) THEN R(res.st, NoneV)
                       ELSE LET back == res.st
                            IN R(Note(back, [e |-> "switch_exit", entry |-> insw,
                                             inswitch |-> back.inswitch]), res.res)

\* the log records the entry into the rewritten body and the return from it,
\* with the flag as it was on entry and as it is left
visit_Switch(st, node, prefix) ==
    LET cd == visit_expr(st, node.cond, prefix \o "switch.")
    IN IF ~Ok(cd.st) THEN R(cd.st, NoneV)
       ELSE IF node.stmt.k # "Compound"
       THEN R(Raise(cd.st, NotSupported("Switch statement", TRUE)), NoneV)
       ELSE IF node.stmt.block_items = <<>>
       THEN R(Raise(cd.st, [t |-> "TypeError", msg |-> "len(None)", line |-> FALSE]), NoneV)
       ELSE LET stmt == convert(node, 0)
            IN IF ~stmt.ok THEN R(Raise(cd.st, AttributeError("stmts")), NoneV)
               ELSE IF stmt.node.k = "None"
               THEN R(Raise(cd.st, NotSupported("Switch statement", TRUE)), NoneV)
               ELSE LET insw == cd.st.inswitch
                        res == visit(Note([cd.st EXCEPT !.inswitch = TRUE],
                                          [e |-> "switch_enter", entry |-> insw]),
                                     stmt.node, prefix \o "switch.")
                    IN IF ~Ok(res.st) THEN R(res.st, NoneV)
                       ELSE LET back == [res.st EXCEPT !.inswitch = insw]
                            IN R(Note(back, [e |-> "switch_exit", entry |-> insw,
                                             inswitch |-> back.inswitch]), res.res)

\* list(map(self.visit_expr, exprs, prefix)) visits exprs[i] with the i-th
\* character of prefix, for as many i as both have
map_visit_expr(st, exprs, prefix, i) ==
    IF ~Ok(st) \/ i > Min(Len(exprs), Len(prefix)) THEN R(st, <<>>)
    ELSE LET r == visit_expr(st, exprs[i], SubSeq(prefix, i, i))
         IN IF ~Ok(r.st) THEN R(r.st, <<>>)
            ELSE LET rest == map_visit_expr(r.st, exprs, prefix, i + 1)
                 IN R(rest.st, <<r.res>> \o rest.res)

\* Op('ArrayInit', *list(map(self.visit_expr, node.exprs or [], prefix)))
visit_InitList(st, node, prefix) ==
    LET r == map_visit_expr(st, node.exprs, prefix, 1)
    IN IF ~Ok(r.st) THEN R(r.st, NoneV) ELSE R(r.st, Op("ArrayInit", r.res))

visit_ExprList(st, node, prefix) ==
    LET r == map_visit_expr(st, node.exprs, prefix, 1)
    IN R(r.st, ListV(r.res))

visit_printf(st, node, args, prefix) ==
    LET lit == Len(args) > 0 /\ args[1].t = "Const"
        s1 == IF Len(args) = 0 THEN addwarn(st, "'printf' with zero args")
              ELSE IF lit THEN st
              ELSE addwarn(st, "First argument of 'printf' should be a format")
        fmt0 == IF lit THEN args[1].value ELSE "?"
        rest == IF lit THEN Tail(args) ELSE args
        fmt == Const(replace(replace(replace(fmt0, "%lf", "%f"), "%ld", "%d"), "%lld", "%d"))
        expr == Op("StrAppend", <<Var(VAR_OUT), Op("StrFormat", <<fmt>> \o rest)>>)
    IN R(addexpr(s1, VAR_OUT, expr, 0), NoneV)

\* the type tag of a conversion
scanftype(f) ==
    CASE f \in {"%d", "%ld", "%i", "%li", "%lli", "%lld"} -> "int"
      [] f \in {"%c"} -> "char"
      [] f \in {"%s"} -> "string"
      [] f \in {"%f", "%lf"} -> "float"
      [] OTHER -> "*"

RECURSIVE scanf_pairs(_, _, _, _)
\* the loop of visit_scanf over zip(fs, args), from the i-th pair on
scanf_pairs(st, fs, args, i) ==
    IF i > Min(Len(fs), Len(args)) \/ ~Ok(st) THEN st
    ELSE LET f == fs[i]
             t == scanftype(f)
             s1 == IF t = "*" /\ f # "*" THEN addwarn(st, "Invalid 'scanf' format") ELSE st
             a0 == args[i]
             amp == a0.t = "Op" /\ a0.name = "&" /\ Len(a0.args) = 1
             bare == a0.t = "Var" \/ (a0.t = "Op" /\ a0.name = "[]")
             a == IF amp THEN a0.args[1] ELSE a0
             s2 == IF amp THEN s1
                   ELSE IF bare THEN addwarn(s1, "Forgoten '&' in 'scanf'")
                   ELSE Raise(s1, NotSupported("Argument to scanf", TRUE))
             rexpr == Op("ListHead", <<Const(t), Var(VAR_IN)>>)
             s3 == IF a.t = "Var" THEN addexpr(s2, a.name, rexpr, 0)
                   ELSE IF a.t = "Op" /\ a.name = "[]" /\ a.args[1].t = "Var"
                   THEN addexpr(s2, a.args[1].name,
                                Op("ArrayAssign", <<a.args[1], a.args[2], rexpr>>), 0)
                   ELSE Raise(s2, NotSupported("Argument to scanf", TRUE))
             s4 == addexpr(s3, VAR_IN, Op("ListTail", <<Var(VAR_IN)>>), 0)
         IN scanf_pairs(s4, fs, args, i + 1)

RECURSIVE stars(_)
\* ['*' for _ in range(n)]
stars(n) == IF n <= 0 THEN <<>> ELSE <<"*">> \o stars(n - 1)

visit_scanf(st, node, args, prefix) ==
    IF Len(args) = 0
    THEN R(Raise(st, [t |-> "UnboundLocalError", msg |-> "fmt", line |-> FALSE]), NoneV)
    ELSE LET a1 == args[1]
             lit == a1.t = "Const" /\ SubSeq(a1.value, 1, 1) = "\""
                    /\ SubSeq(a1.value, Len(a1.value), Len(a1.value)) = "\""
             fmt == IF lit THEN SubSeq(a1.value, 2, Len(a1.value) - 1) ELSE ""
             rest == IF lit THEN Tail(args) ELSE <<>>
             s1 == IF lit THEN st
                   ELSE addwarn(st, "First argument of 'scanf' should be a (string) format")
             fs0 == findall(fmt)
             s2 == IF Len(fs0) # Len(rest)
                   THEN addwarn(s1, "Mismatch between format and number of argument(s) of 'scanf'")
                   ELSE s1
             fs == IF Len(rest) > Len(fs0) THEN fs0 \o stars(Len(rest) - Len(fs0)) ELSE fs0
         IN R(scanf_pairs(s2, fs, rest, 1), NoneV)

visit_FuncCall(st, node, prefix) ==
    LET name == visit_expr(st, node.name, prefix)
    IN IF ~Ok(name.st) THEN R(name.st, NoneV)
       ELSE IF name.res.t # "Var"
       THEN R(Raise(name.st, NotSupported("Non-var function name", TRUE)), NoneV)
       ELSE LET a == visit(name.st, node.args, prefix)
                args == IF Truthy(a.res) THEN a.res.items ELSE <<>>
            IN IF ~Ok(a.st) THEN R(a.st, NoneV)
               ELSE IF name.res.name = "scanf" THEN visit_scanf(a.st, node, args, prefix)
               ELSE IF name.res.name = "printf" THEN visit_printf(a.st, node, args, prefix)
               ELSE IF name.res.name \in fncnames(a.st)
               THEN R(a.st, Op("FuncCall", <<name.res>> \o args))
               ELSE IF name.res.name \in LIB_FNCS
               THEN R(a.st, Op(name.res.name, args))
               ELSE R(Raise(a.st, NotSupported("Unsupported function call", TRUE)), NoneV)

visit_If(st, node, prefix) ==
    LET r == visit_if(st, node, node.cond, node.iftrue, node.iffalse, prefix \o "if.")
    IN R(r.st, NoneV)

\* the log entry of a loop statement: the flag it was visited with
LoopSeen(st, kind) == Note(st, [e |-> "loop", kind |-> kind, inswitch |-> st.inswitch])

visit_While(st, node, prefix) ==
    IF st.inswitch
    THEN R(Raise(LoopSeen(st, "while"), NotSupported("Loop inside switch", TRUE)), NoneV)
    ELSE LET r == visit_loop(LoopSeen(st, "while"), node, NoneNode, node.cond, NoneNode, node.stmt, FALSE,
                             prefix \o "while.")
         IN R(r.st, NoneV)

visit_DoWhile(st, node, prefix) ==
    IF st.inswitch
    THEN R(Raise(LoopSeen(st, "dowhile"), NotSupported("Loop inside switch", TRUE)), NoneV)
    ELSE LET r == visit_loop(LoopSeen(st, "dowhile"), node, NoneNode, node.cond, NoneNode, node.stmt, TRUE,
                             prefix \o "dowhile.")
         IN R(r.st, NoneV)

visit_For(st, node, prefix) ==
    IF st.inswitch
    THEN R(Raise(LoopSeen(st, "for"), NotSupported("Loop inside switch", TRUE)), NoneV)
    ELSE LET r == visit_loop(LoopSeen(st, "for"), node, node.init, node.cond, node.next, node.stmt, FALSE,
                             prefix \o "for.")
         IN R(r.st, NoneV)

visit_Return(st, node, prefix) ==
    LET e == visit_expr(st, node.expr, prefix)
        expr == IF Truthy(e.res) THEN e.res ELSE Const("top")
    IN R(addexpr(e.st, VAR_RET, expr, 0), NoneV)

\* the log entry of a break or continue: the loop stack, the location and the
\* flags it was visited with, and what it changed (transitions and locations
\* added, warnings recorded, the current location and hasbcs afterwards)
Jump(kind, st, after) ==
    [e |-> kind, loops |-> st.loops, loc |-> st.loc,
     added |-> after.fncs[after.fnc].trans \ st.fncs[st.fnc].trans,
     inswitch |-> st.inswitch, nobcs |-> st.nobcs,
     newlocs |-> Len(after.fncs[after.fnc].locexprs) - Len(st.fncs[st.fnc].locexprs),
     warned |-> SubSeq(after.warns, Len(st.warns) + 1, Len(after.warns)),
     locafter |-> after.loc, hasbcs |-> st.hasbcs, hasbcsafter |-> after.hasbcs]

Logged(kind, st, after) == [after EXCEPT !.log = Append(@, Jump(kind, st, after))]

\* a break that jumps to the exit of the outermost loop
visit_Break_outermost(st, node, prefix) ==
    IF st.inswitch \/ st.nobcs THEN R(Logged("break", st, st), NoneV)
    ELSE LET lastl == lastloop(st)
         IN IF lastl = <<>>
            THEN R(Logged("break", st, addwarn(st, "'break' outside loop")), NoneV)
            ELSE LET preloc == st.loc
                     s1 == addloc([st EXCEPT !.hasbcs = TRUE])
                 IN R(Logged("break", st, addtrans(s1, preloc, TrueGuard, st.loops[1][2])),
                      NoneV)

visit_Break(st, node, prefix) ==
    IF st.inswitch \/ st.nobcs THEN R(Logged("break", st, st), NoneV)
    ELSE LET lastl == lastloop(st)
         IN IF lastl = <<>>
            THEN R(Logged("break", st, addwarn(st, "'break' outside loop")), NoneV)
            ELSE LET preloc == st.loc
                     s1 == addloc([st EXCEPT !.hasbcs = TRUE])
                 IN R(Logged("break", st, addtrans(s1, preloc, TrueGuard, lastl[2])), NoneV)

\* a continue that is skipped inside a switch region, as a break is
visit_Continue_asbreak(st, node, prefix) ==
    IF st.inswitch \/ st.nobcs THEN R(Logged("continue", st, st), NoneV)
    ELSE LET lastl == lastloop(st)
         IN IF lastl = <<>>
            THEN R(Logged("continue", st, addwarn(st, "'continue' outside loop")), NoneV)
            ELSE LET preloc == st.loc
                     s1 == addloc([st EXCEPT !.hasbcs = TRUE])
                 IN R(Logged("continue", st,
                             addtrans(s1, preloc, TrueGuard,
                                      IF lastl[3] # 0 THEN lastl[3] ELSE lastl[1])), NoneV)

visit_Continue(st, node, prefix) ==
    IF st.nobcs THEN R(Logged("continue", st, st), NoneV)
    ELSE LET lastl == lastloop(st)
         IN IF lastl = <<>>
            THEN R(Logged("continue", st, addwarn(st, "'continue' outside loop")), NoneV)
            ELSE LET preloc == st.loc
                     s1 == addloc([st EXCEPT !.hasbcs = TRUE])
                 IN R(Logged("continue", st,
                             addtrans(s1, preloc, TrueGuard,
                                      IF lastl[3] # 0 THEN lastl[3] ELSE lastl[1])), NoneV)

visit_Label(st, node, prefix) ==
    visit(addwarn(st, "Ignoring label"), node.stmt, prefix)

visit_Goto(st, node, prefix) ==
    R(Raise(st, NotSupported("Not supporting GOTO - it is considered harmful.", FALSE)), NoneV)

visit_IdentifierType(st, node, prefix) ==
    R(st, StrV(TYPE_SYNONYMS(join(node.names, "_"))))

visit_TypeDecl(st, node, prefix) ==
    LET t == visit(st, node.type, prefix)
    IN R(t.st, TupleV(node.declname, t.res.s, NoneV))

visit_Typename(st, node, prefix) ==
    LET t == visit(st, node.type, prefix)
    IN IF ~Ok(t.st) THEN R(t.st, NoneV) ELSE R(t.st, StrV(t.res.type))

visit_ArrayDecl(st, node, prefix) ==
    LET t == visit(st, node.type, prefix)
    IN IF ~Ok(t.st) THEN R(t.st, NoneV)
       ELSE IF t.res.dim.t # "None" \/ EndsWith(t.res.type, "[]")
       THEN R(Raise(t.st, NotSupported("Double Array", TRUE)), NoneV)
       ELSE LET d == visit_expr(t.st, node.dim, prefix)
            IN R(d.st, TupleV(t.res.name, t.res.type \o "[]", d.res))

visit_Decl(st, node, prefix) ==
    LET t == visit(st, node.type, prefix)
        i == visit_expr(t.st, node.init, prefix)
        s1 == IF i.st.fncdef THEN i.st ELSE addtype(i.st, t.res.name, t.res.type)
        hasinit == i.res.t # "None"
        hasdim == t.res.dim.t # "None"
        s2 == IF hasinit THEN addexpr(s1, t.res.name, i.res, 0) ELSE s1
        s3 == IF hasdim /\ ~s2.fncdef
              THEN addexpr(s2, t.res.name, Op("ArrayCreate", <<t.res.dim>>), 0)
              ELSE s2
    IN IF ~Ok(i.st) THEN R(i.st, NoneV)
       ELSE IF s1.err.t = "AssertionError"
       THEN R(addwarn(i.st, "Ignored global definition"), NoneV)
       ELSE IF hasinit /\ hasdim
       THEN R(Raise(s1, NotSupported("Array Init & Create together", TRUE)), NoneV)
       ELSE R(s3, t.res)

\* the parameter loops of visit_FuncDef (isdef) and visit_FuncDecl over
\* params[i..]: the list of registered parameters
visit_params(st, params, i, prefix, isdef) ==
    IF i > Len(params) \/ ~Ok(st) THEN R(st, <<>>)
    ELSE LET p == visit(st, params[i], prefix)
             rest == visit_params(p.st, params, i + 1, prefix, isdef)
             param == IF p.res.t = "Var" THEN Pair(p.res.name, "int")
                      ELSE IF p.res.t = "Str"
                      THEN IF isdef THEN StrV(SubSeq(p.res.s, 1, Min(2, Len(p.res.s))))
                           ELSE Pair("_", p.res.s)
                      ELSE Pair(p.res.name, p.res.type)
         IN IF ~Ok(p.st) THEN R(p.st, <<>>)
            ELSE IF p.res.t = "Str" /\ p.res.s = "void" THEN rest
            ELSE R(rest.st, <<param>> \o rest.res)

RECURSIVE addtypes(_, _, _)
\* for v, t in params: self.addtype(v, t)
addtypes(st, params, i) ==
    IF i > Len(params) \/ ~Ok(st) THEN st
    ELSE LET p == params[i]
         IN IF p.t = "Pair" THEN addtypes(addtype(st, p.name, p.type), params, i + 1)
            ELSE IF Len(p.s) = 2
            THEN addtypes(addtype(st, SubSeq(p.s, 1, 1), SubSeq(p.s, 2, 2)), params, i + 1)
            ELSE Raise(st, [t |-> "ValueError", msg |-> "unpack", line |-> FALSE])

visit_FuncDecl(st, node, prefix) ==
    LET s0 == [st EXCEPT !.fncdef = TRUE]
        t == visit(s0, node.type, prefix)
        ps == IF node.args.k # "None"
              THEN visit_params(t.st, node.args.params, 1, prefix, FALSE)
              ELSE R(t.st, <<>>)
        s1 == Upd(ps.st, [ps.st EXCEPT !.fncdef = FALSE])
        s2 == addfnc(s1, t.res.name, ps.res, t.res.type)
        s3 == addtypes(s2, ps.res, 1)
        s4 == endfnc(s3)
    IN IF ~Ok(ps.st) THEN R(ps.st, NoneV)
       ELSE R(s4, TupleV(t.res.name, t.res.type, NoneV))

visit_FuncDef(st, node, prefix) ==
    LET t == visit([st EXCEPT !.fncdef = TRUE], node.decl.type.type, prefix)
        name == t.res.name
        ps == IF node.decl.type.args.k # "None"
              THEN visit_params(t.st, node.decl.type.args.params, 1,
                                prefix \o name \o ".", TRUE)
              ELSE R(t.st, <<>>)
    IN IF ~Ok(ps.st) THEN R(ps.st, NoneV)
       ELSE
       LET s1 == [ps.st EXCEPT !.fncdef = FALSE]
           s2 == addfnc(s1, name, ps.res, t.res.type)
           s3 == addtypes(s2, ps.res, 1)
           s4 == addloc(s3)
       IN IF ~Ok(s4) THEN R(s4, NoneV)
          ELSE LET b == visit(s4, node.body, prefix \o name \o ".")
               IN IF ~Ok(b.st) THEN R(b.st, NoneV) ELSE R(endfnc(b.st), NoneV)

\* Parser.visit: dispatch on the node's class; None is skipped and a class
\* without a visitor is unsupported
visit(st, node, prefix) ==
    IF ~Ok(st) \/ node.k = "None" THEN R(st, NoneV)
    ELSE CASE node.k = "ID" -> visit_ID(st, node, prefix)
           [] node.k = "Constant" -> visit_Constant(st, node, prefix)
           [] node.k = "UnaryOp" -> visit_UnaryOp(st, node, prefix)
           [] node.k = "BinaryOp" -> visit_BinaryOp(st, node, prefix)
           [] node.k = "ArrayRef" -> visit_ArrayRef(st, node, prefix)
           [] node.k = "TernaryOp" -> visit_TernaryOp(st, node, prefix)
           [] node.k = "Assignment" -> visit_Assignment(st, node, prefix)
           [] node.k = "ExprList" -> visit_ExprList(st, node, prefix)
           [] node.k = "InitList" -> visit_InitList(st, node, prefix)
           [] node.k = "FuncCall" -> visit_FuncCall(st, node, prefix)
           [] node.k = "Compound" -> visit_Compound(st, node, prefix)
           [] node.k = "If" -> visit_If(st, node, prefix)
           [] node.k = "While" -> visit_While(st, node, prefix)
           [] node.k = "DoWhile" -> visit_DoWhile(st, node, prefix)
           [] node.k = "For" -> visit_For(st, node, prefix)
           [] node.k = "Switch" -> visit_Switch(st, node, prefix)
           [] node.k = "Break" -> visit_Break(st, node, prefix)
           [] node.k = "Continue" -> visit_Continue(st, node, prefix)
           [] node.k = "Return" -> visit_Return(st, node, prefix)
           [] node.k = "Label" -> visit_Label(st, node, prefix)
           [] node.k = "Goto" -> visit_Goto(st, node, prefix)
           [] node.k = "EmptyStatement" -> visit_EmptyStatement(st, node, prefix)
           [] node.k = "IdentifierType" -> visit_IdentifierType(st, node, prefix)
           [] node.k = "TypeDecl" -> visit_TypeDecl(st, node, prefix)
           [] node.k = "ArrayDecl" -> visit_ArrayDecl(st, node, prefix)
           [] node.k = "Typename" -> visit_Typename(st, node, prefix)
           [] node.k = "Decl" -> visit_Decl(st, node, prefix)
           [] node.k = "FuncDecl" -> visit_FuncDecl(st, node, prefix)
           [] node.k = "FuncDef" -> visit_FuncDef(st, node, prefix)
           [] OTHER -> R(Raise(st, NotSupported("Unimplemented visitor", FALSE)), NoneV)

(***************************************************************************)
(* The translation units fed to the parser: one external declaration per   *)
(* step, drawn from the function definitions and prototypes below.         *)
(***************************************************************************)
MaxExt == 1

vx == ID("x")
vy == ID("y")
vz == ID("z")
vc == ID("c")
One == Constant("1")
Two == Constant("2")
Set(v, e) == Assignment("=", v, e)
Inc(op, v) == UnaryOp(op, v)
Addr(e) == UnaryOp("&", e)
TInt == IdentifierType(<<"int">>)
TVoid == IdentifierType(<<"void">>)
Param(name, type) == Decl(TypeDecl(name, type), NoneNode)
Unnamed(type) == Typename(TypeDecl("", type))
Call(name, args) == FuncCall(ID(name), ExprList(args))
Block(items) == Compound(items)

Postfix == {"p++", "p--"}
Prefix == {"++", "--"}

\* y = x++ (+|-) ++x and y = ++x (+|-) x++, with every choice of ++ and --
MixedIncs ==
    {Set(vy, BinaryOp(o, Inc(p, vx), Inc(q, vx))) :
        o \in {"+", "-"},
        p \in Postfix \cup Prefix,
        q \in {q \in Postfix \cup Prefix : TRUE}}

\* those with one postfix and one prefix operator
PostPreAssignments ==
    {a \in MixedIncs : (a.rvalue.left.op \in Postfix) # (a.rvalue.right.op \in Postfix)}

Assignments ==
    PostPreAssignments
    \cup {Set(vy, Inc("p++", vx)), Set(vy, Inc("++", vx)), Set(vy, vx),
          Assignment("+=", vy, vx), Assignment("<<=", vy, vx),
          Set(ArrayRef(ID("a"), Inc("p++", vx)), vy),
          Set(BinaryOp("+", vx, vy), vz),
          Set(vy, BinaryOp("+", Inc("p++", vx), Inc("p--", vz))),
          Set(vy, Set(vz, Inc("p++", vx))),
          Set(ArrayRef(ID("a"), Inc("p++", vx)), Inc("p--", vz)),
          Assignment("+=", vy, Inc("p++", vx))}

\* an assignment after a statement that left a postfix update behind
AfterPostfix ==
    {<<Inc("p++", vx), a>> : a \in {Set(vy, vz), Set(vy, Inc("p++", vz)),
                                     Set(vy, BinaryOp("-", Inc("p--", vz), Inc("--", vx)))}}

\* conditional expressions, as statements and as right-hand sides
Ternaries ==
    {TernaryOp(cd, t, f) :
        cd \in {vc, Inc("p++", vx), Inc("++", vx)},
        t \in {vy, Inc("p++", vy), Inc("--", vy)},
        f \in {vz, Inc("p--", vz)}}

TernaryStmts ==
    {<<t>> : t \in Ternaries}
    \cup {<<Set(ID("r"), t)>> : t \in Ternaries}
    \cup {<<Inc("p++", vz), t>> : t \in Ternaries}

\* switch bodies: groups of cases and defaults, in order and out of order
Brk(v, e) == <<Set(v, e), Break>>
SwitchBodies ==
    {Block(<<Case(One, Brk(vy, One)), Case(Two, Brk(vy, Two)), Default(<<Set(vy, vz)>>)>>),
     Block(<<Case(One, Brk(vy, One)), Case(Two, Brk(vy, Two))>>),
     Block(<<Case(One, <<Set(vy, One), Continue>>), Default(<<Break>>)>>),
     Block(<<Default(<<Set(vy, vz)>>)>>),
     Block(<<Default(<<Set(vy, vz)>>), Case(One, Brk(vy, One))>>),
     Block(<<Case(One, Brk(vy, One)), Default(Brk(vy, vz)), Case(Two, Brk(vy, Two))>>),
     Block(<<Case(One, Brk(vy, One)), Default(Brk(vy, vz)), Default(<<Set(vy, vx)>>)>>),
     Block(<<Set(vy, vz), Case(One, Brk(vy, One))>>),
     Block(<<Case(One, <<Case(Two, Brk(vy, Two))>>)>>),
     Block(<<Case(One, <<Set(vy, One)>>), Case(Two, Brk(vy, Two))>>),
     Block(<<Case(One, Brk(vy, One)), Default(Brk(vy, vz)), Case(Two, <<Goto("L")>>)>>),
     Block(<<Case(One, <<Goto("L")>>), Default(<<Set(vy, vz)>>)>>),
     Block(<<Case(One, Brk(vy, One)), Default(<<Goto("L")>>)>>),
     Block(<<Case(One, <<While(vc, Block(<<Set(vy, One)>>)), Break>>)>>),
     Block(<<Case(One, <<If(vc, Block(<<For(NoneNode, vc, NoneNode, Block(<<Break>>))>>),
                            NoneNode)>>)>>),
     Block(<<Case(One, <<Switch(vy, Block(<<Case(Two, Brk(vz, Two))>>)),
                         DoWhile(vc, Block(<<Set(vy, One)>>))>>)>>),
     Block(<<>>),
     Case(One, Brk(vy, One))}

Switches == {Switch(cd, b) : cd \in {vx, Inc("p++", vx)}, b \in SwitchBodies}

\* loops, nested two deep, with break and continue in the inner body
Loop(kind, body) ==
    CASE kind = "while" -> While(vc, body)
      [] kind = "dowhile" -> DoWhile(vc, body)
      [] kind = "for" -> For(Set(ID("i"), One), vc, Inc("p++", ID("i")), body)
      [] OTHER -> For(NoneNode, vc, NoneNode, body)

LoopKinds == {"while", "dowhile", "for", "for0"}

Jumps ==
    {Block(<<Break>>), Block(<<Continue>>),
     Block(<<If(vx, Break, Continue), Set(vy, One)>>),
     Block(<<Switch(vx, Block(<<Case(One, <<Break>>), Default(<<Continue>>)>>))>>)}

Loops ==
    {Loop(k1, Block(<<Loop(k2, b), Set(vz, One)>>)) :
        k1 \in {"while", "for"}, k2 \in LoopKinds, b \in Jumps}
    \cup {Loop(k, b) : k \in LoopKinds, b \in Jumps}
    \cup {Loop("while", Block(<<Loop("for", Block(<<Break>>)), Break, Continue>>)),
          Loop("while", Block(<<Switch(vx, Block(<<Case(One, <<Break>>)>>)), Set(vy, One)>>))}

\* goto in every statement position
Gotos ==
    {<<Goto("L")>>,
     <<Return(vx), Goto("L")>>,
     <<Loop("while", Block(<<Break, Goto("L")>>))>>,
     <<Loop("for", Block(<<Goto("L")>>))>>,
     <<If(vc, Goto("L"), NoneNode)>>,
     <<If(vc, Set(vy, One), Block(<<Goto("L")>>))>>,
     <<Label("L", Goto("L"))>>,
     <<Label("L", Set(vy, One)), Goto("L")>>}

Others ==
    {<<>>, <<Break>>, <<Continue>>, <<Return(NoneNode)>>, <<Return(vx)>>,
     <<Label("L", Set(vy, One))>>, <<EmptyStatement>>,
     <<If(vc, Set(vy, One), NoneNode)>>, <<If(vc, Set(vy, One), Set(vy, Two))>>,
     <<Inc("p++", vx)>>, <<Inc("++", vx)>>,
     <<Decl(TypeDecl("x", TInt), One)>>,
     <<Decl(ArrayDecl(TypeDecl("a", TInt), Two), NoneNode)>>,
     <<Call("sqrt", <<vx>>)>>, <<Call("g", <<vx>>)>>}

\* one body for each construct outside the supported subset that no other
\* family holds
Unsupported ==
    {<<ArrayRef(ArrayRef(ID("a"), vx), vy)>>,
     <<Set(vy, ArrayRef(Call("g", <<vx>>), One))>>,
     <<Inc("++", ArrayRef(ID("a"), vx))>>,
     <<Inc("p--", ArrayRef(ID("a"), vx))>>,
     <<Set(UnaryOp("*", vx), One)>>,
     <<FuncCall(UnaryOp("*", vx), ExprList(<<vy>>))>>,
     <<Decl(ArrayDecl(ArrayDecl(TypeDecl("a", TInt), Two), Two), NoneNode)>>,
     <<Decl(ArrayDecl(TypeDecl("a", TInt), Two), InitList(<<One, Two>>))>>,
     <<Decl(ArrayDecl(TypeDecl("a", TInt), NoneNode), InitList(<<One, Two>>))>>}

\* what follows a switch: a loop after a completed switch, and the rest of a
\* case after a nested switch
AfterSwitch ==
    LET inner == Switch(vy, Block(<<Case(Two, Brk(vz, Two))>>))
        nested == Switch(vx, Block(<<Case(One, <<inner, Set(vy, One), Break>>)>>))
        plain == Switch(vx, Block(<<Case(One, Brk(vy, One)), Default(<<Set(vy, vz)>>)>>))
    IN {<<plain, Loop(k, Block(<<Set(vz, One)>>))>> : k \in LoopKinds}
       \cup {<<nested>>,
             <<Loop("while", Block(<<nested, Continue>>)), Loop("for", Block(<<plain, Break>>))>>,
             <<Switch(vx, Block(<<Case(One, <<Block(<<Loop("while", Block(<<Break>>))>>)>>)>>))>>}

Bodies ==
    {<<a>> : a \in Assignments} \cup TernaryStmts \cup {<<s>> : s \in Switches}
    \cup {<<l>> : l \in Loops} \cup Gotos \cup Others \cup Unsupported \cup AfterPostfix
    \cup AfterSwitch
    \cup {<<Loop("while", Block(<<s>>))>> : s \in Switches}

\* scanf and printf calls
Fmt(s) == Constant("\"" \o s \o "\"")
Scanfs ==
    {Call("scanf", <<Fmt("%d %d"), Addr(vx), Addr(vy)>>),
     Call("scanf", <<Fmt("%d"), Addr(vx)>>),
     Call("scanf", <<Fmt("%lf%c"), Addr(ArrayRef(ID("a"), vx)), Addr(vy)>>),
     Call("scanf", <<Fmt("%lld %s %li"), Addr(vx), Addr(vy), Addr(vz)>>),
     Call("scanf", <<Fmt("%d %d %d %d %f"), Addr(vx), Addr(vy), Addr(vz), Addr(vc), Addr(ID("w"))>>),
     Call("scanf", <<Fmt("%d"), Addr(vx), Addr(vy)>>),
     Call("scanf", <<Fmt("%d"), Addr(vx), Addr(vy), Addr(vz)>>),
     Call("scanf", <<Fmt("%d %f %c"), Addr(vx)>>),
     Call("scanf", <<Fmt("%d %d"), Addr(vx)>>),
     Call("scanf", <<Fmt(""), Addr(vx)>>),
     Call("scanf", <<Fmt("%u"), Addr(vx)>>),
     Call("scanf", <<Fmt("%d"), vx>>),
     Call("scanf", <<Fmt("%d"), Addr(BinaryOp("+", vx, vy))>>),
     Call("scanf", <<vx, Addr(vy)>>)}

Printfs ==
    {Call("printf", <<Fmt("%ld\\n"), vx>>),
     Call("printf", <<Fmt("%lf %lld %ld"), vx, vy, vz>>),
     Call("printf", <<Fmt("%d %d"), vx, vy>>),
     Call("printf", <<Fmt("%d"), Inc("p++", vx)>>),
     Call("printf", <<Fmt("hello")>>),
     Call("printf", <<Fmt("%%ld %li"), vx>>),
     Call("printf", <<vx, vy>>)}

IOBodies ==
    {<<s>> : s \in Scanfs \cup Printfs}
    \cup {<<If(vc, s, NoneNode)>> : s \in {Call("scanf", <<Fmt("%d %d"), Addr(vx), Addr(vy)>>),
                                          Call("printf", <<Fmt("%d %d"), vx, vy>>)}}

\* parameter lists
ParamLists ==
    {NoneNode, ParamList(<<Unnamed(TVoid)>>),
     ParamList(<<Param("a", TInt)>>),
     ParamList(<<Param("a", TInt), Param("b", IdentifierType(<<"double">>))>>),
     ParamList(<<Param("a", IdentifierType(<<"long", "int">>)), Unnamed(TVoid),
                 Decl(ArrayDecl(TypeDecl("b", TInt), NoneNode), NoneNode)>>),
     ParamList(<<ID("a"), ID("b")>>)}

ProtoParamLists ==
    ParamLists \cup {ParamList(<<Unnamed(TInt)>>),
                     ParamList(<<Param("a", TInt), Unnamed(IdentifierType(<<"double">>))>>)}

Proto(name, rtype, args) == FuncDecl(args, TypeDecl(name, rtype))
Def(name, rtype, args, body) == FuncDef(Decl(Proto(name, rtype, args), NoneNode), Block(body))

FuncDefs ==
    {Def("main", TInt, NoneNode, b) : b \in Bodies}
    \cup {Def(n, TInt, NoneNode, b) : n \in {"f", "main"}, b \in IOBodies}
    \cup {Def("f", r, a, <<Return(vx)>>) : r \in {TInt, TVoid}, a \in ProtoParamLists}

Protos == {Decl(Proto("f", r, a), NoneNode) : r \in {TInt, TVoid}, a \in ProtoParamLists}

(***************************************************************************)
(* The parser object, the state after CParser.__init__, and the steps of   *)
(* visit_FileAST: one per external declaration.                            *)
(***************************************************************************)
self ==
    [fncs |-> fncs, fnc |-> fnc, loc |-> loc, loops |-> loops,
     postincdec |-> postincdec, inswitch |-> inswitch, fncdef |-> fncdef,
     nobcs |-> nobcs, hasbcs |-> hasbcs, warns |-> warns, err |-> err, log |-> log]

Init ==
    /\ ast = <<>>
    /\ fncs = <<>>
    /\ fnc = 0
    /\ loc = 0
    /\ loops = <<>>
    /\ postincdec = 0
    /\ inswitch = FALSE
    /\ fncdef = FALSE
    /\ nobcs \in BOOLEAN
    /\ hasbcs = FALSE
    /\ warns = <<>>
    /\ err = NoErr
    /\ log = <<>>

Becomes(st) ==
    /\ fncs' = st.fncs
    /\ fnc' = st.fnc
    /\ loc' = st.loc
    /\ loops' = st.loops
    /\ postincdec' = st.postincdec
    /\ inswitch' = st.inswitch
    /\ fncdef' = st.fncdef
    /\ nobcs' = st.nobcs
    /\ hasbcs' = st.hasbcs
    /\ warns' = st.warns
    /\ err' = st.err
    /\ log' = st.log

\* visit_FileAST reaches a function definition
ExtFuncDef(node) ==
    /\ err = NoErr
    /\ Len(ast) < MaxExt
    /\ ast' = Append(ast, node)
    /\ Becomes(visit(self, node, "").st)

\* visit_FileAST reaches a function prototype
ExtDecl(node) ==
    /\ err = NoErr
    /\ Len(ast) < MaxExt
    /\ ast' = Append(ast, node)
    /\ Becomes(visit(self, node, "").st)

Next ==
    \/ \E node \in FuncDefs : ExtFuncDef(node)
    \/ \E node \in Protos : ExtDecl(node)

Spec == Init /\ [][Next]_vars

(***************************************************************************)
(* What the properties below read: the i-th external declaration, the      *)
(* function it registered, and whether its translation ran to the end.     *)
(***************************************************************************)
Exts == 1..Len(ast)
IsDef(n) == n.k = "FuncDef"
BodyOf(n) == n.body.block_items
ArgsOf(n) == IF IsDef(n) THEN n.decl.type.args ELSE n.type.args
Done(i) == i < Len(ast) \/ err.t = "ok"
Failed(i, kind) == i = Len(ast) /\ err.t = kind
\* the update list of the entry location of the i-th function
EntryUpdates(i) == fncs[i].locexprs[1]

\* the parser after construction, and the function a definition alone yields
Fresh(nb) ==
    [fncs |-> <<>>, fnc |-> 0, loc |-> 0, loops |-> <<>>, postincdec |-> 0,
     inswitch |-> FALSE, fncdef |-> FALSE, nobcs |-> nb, hasbcs |-> FALSE,
     warns |-> <<>>, err |-> NoErr, log |-> <<>>]
Alone(node, nb) == visit(Fresh(nb), node, "").st

(***************************************************************************)
(* C1.  Sequential execution of an update list, and the left-to-right      *)
(* evaluation of the statement it was built from.                          *)
(***************************************************************************)
RECURSIVE evalexpr(_, _)
evalexpr(e, env) ==
    CASE e.t = "Var" -> env[e.name]
      [] e.t = "Const" -> IF e.value = "1" THEN 1 ELSE 0
      [] e.name = "+" -> evalexpr(e.args[1], env) + evalexpr(e.args[2], env)
      [] OTHER -> evalexpr(e.args[1], env) - evalexpr(e.args[2], env)

RECURSIVE run(_, _)
run(updates, env) ==
    IF updates = <<>> THEN env
    ELSE run(Tail(updates),
             [env EXCEPT ![Head(updates).var] = evalexpr(Head(updates).expr, env)])

RECURSIVE evalc(_, _)
evalc(n, env) ==
    CASE n.k = "ID" -> [v |-> env[n.name], env |-> env]
      [] n.k = "Constant" -> [v |-> IF n.value = "1" THEN 1 ELSE 0, env |-> env]
      [] n.k = "UnaryOp" ->
            LET old == env[n.expr.name]
                new == IF n.op \in {"++", "p++"} THEN old + 1 ELSE old - 1
            IN [v |-> IF n.op \in Prefix THEN new ELSE old,
                env |-> [env EXCEPT ![n.expr.name] = new]]
      [] n.k = "BinaryOp" ->
            LET l == evalc(n.left, env)
                r == evalc(n.right, l.env)
            IN [v |-> IF n.op = "+" THEN l.v + r.v ELSE l.v - r.v, env |-> r.env]
      [] OTHER ->
            LET r == evalc(n.rvalue, env)
            IN [v |-> r.v, env |-> [r.env EXCEPT ![n.lvalue.name] = r.v]]

StartEnvs == {[x |-> x0, y |-> 0] : x0 \in {0, 5}}

\* C1: for a statement y = E, E combining one postfix and one prefix ++/-- on x,
\* the updates scheduled at the location are in the order of left-to-right
\* evaluation: executed in order they leave x and y as evaluating the statement
\* from left to right does.
C1_LeftToRightOrder ==
    \A i \in Exts :
        (IsDef(ast[i]) /\ BodyOf(ast[i]) \in {<<a>> : a \in PostPreAssignments})
        => /\ Done(i)
           /\ \A env \in StartEnvs :
                  run(EntryUpdates(i), env) = evalc(BodyOf(ast[i])[1], env).env

(***************************************************************************)
(* C2.                                                                     *)
(***************************************************************************)
\* C2: when visit_TernaryOp calls the if/else builder, the update list of the
\* location holds no update scheduled while the condition and the branches were
\* built as values: it is the list the ternary was entered with.
C2_NoLeftoverUpdates ==
    \A j \in 1..Len(log) :
        log[j].e = "ternary_if" => log[j].atcall = log[j].entry

(***************************************************************************)
(* C3, C4.  The shape of a switch body and the if chain it stands for.     *)
(***************************************************************************)
IsGroups(b) ==
    /\ b.k = "Compound"
    /\ \A j \in 1..Len(b.block_items) : b.block_items[j].k \in {"Case", "Default"}

\* case groups followed by at most one default, which is last
WellFormed(b) ==
    /\ IsGroups(b)
    /\ \E j \in 1..Len(b.block_items) : b.block_items[j].k = "Case"
    /\ \A j \in 1..Len(b.block_items) :
           b.block_items[j].k = "Default" => j = Len(b.block_items)

RECURSIVE IfChain(_, _, _)
IfChain(cond, groups, j) ==
    IF j > Len(groups) THEN NoneNode
    ELSE IF groups[j].k = "Default" THEN Block(groups[j].stmts)
    ELSE If(BinaryOp("==", cond, groups[j].expr), Block(groups[j].stmts),
            IfChain(cond, groups, j + 1))

IsSwitchDef(n) == IsDef(n) /\ Len(BodyOf(n)) = 1 /\ BodyOf(n)[1].k = "Switch"
SwitchOf(n) == BodyOf(n)[1]
WithBody(n, body) == FuncDef(n.decl, Block(body))

\* C3: a switch of case groups with an optional trailing default is rewritten to
\* the right-nested if chain in source order, and its translation has the same
\* locations, transitions and updates as the translation of that chain.
C3_SwitchIsIfChain ==
    \A i \in Exts :
        (IsSwitchDef(ast[i]) /\ WellFormed(SwitchOf(ast[i]).stmt) /\ Done(i))
        => LET sw == SwitchOf(ast[i])
               chain == IfChain(sw.cond, sw.stmt.block_items, 1)
               direct == Alone(WithBody(ast[i], <<chain>>), nobcs)
           IN /\ convert(sw, 0) = [ok |-> TRUE, node |-> chain]
              /\ fncs[i].locexprs = direct.fncs[1].locexprs
              /\ fncs[i].trans = direct.fncs[1].trans

\* a group that is not the last and does not end in a jump falls through
Jumpy(stmts) == stmts # <<>> /\ stmts[Len(stmts)].k \in {"Break", "Continue", "Return", "Goto"}
FallsThrough(b) ==
    \E j \in 1..(Len(b.block_items) - 1) :
        \/ ~Jumpy(b.block_items[j].stmts)
        \/ b.block_items[j].stmts[1].k \in {"Case", "Default"}

Malformed(b) ==
    \/ ~IsGroups(b)
    \/ \E j \in 1..(Len(b.block_items) - 1) : b.block_items[j].k = "Default"
    \/ \E j \in 1..Len(b.block_items) :
           b.block_items[j].stmts # <<>> /\ b.block_items[j].stmts[1].k \in {"Case", "Default"}
    \/ FallsThrough(b)

\* C4: a switch whose body is not a compound of case groups with at most one
\* default placed last (default not last, duplicate default, interleaved code,
\* fallthrough) ends in the unsupported-construct failure.
C4_MalformedSwitchFails ==
    \A i \in Exts :
        (IsSwitchDef(ast[i]) /\ Malformed(SwitchOf(ast[i]).stmt))
        => Failed(i, "NotSupported")

(***************************************************************************)
(* C5.  Break and continue against the loop stack.                         *)
(***************************************************************************)
JumpEvents == {j \in 1..Len(log) : log[j].e \in {"break", "continue"}}
Innermost(e) == e.loops[Len(e.loops)]
\* where the statement has to go: the innermost loop's exit, or its
\* continue-target (the update clause when present, else the condition)
JumpTarget(e) ==
    IF e.e = "break" THEN Innermost(e)[2]
    ELSE IF Innermost(e)[3] # 0 THEN Innermost(e)[3] ELSE Innermost(e)[1]
InnerJump(e) == [from |-> e.loc, cond |-> TrueGuard, to |-> JumpTarget(e)]
OuterLocs(e) ==
    {e.loops[j][m] : j \in 1..(Len(e.loops) - 1), m \in 1..3} \ {0}
Suppressed(e) == e.nobcs \/ (e.e = "break" /\ e.inswitch)

\* C5 as stated: with two nested loops on the stack every break and every
\* continue adds the transition from the current location to the innermost
\* loop's exit or continue-target, and none to a location of the outer loop.
C5_JumpAlwaysAdded ==
    \A j \in JumpEvents :
        Len(log[j].loops) >= 2
        => /\ log[j].added = {InnerJump(log[j])}
           /\ \A t \in log[j].added : t.to \notin OuterLocs(log[j])

\* C5 as amended: with two nested loops on the stack a break or continue that
\* is not suppressed (break/continue generation switched off, or a break inside
\* a switch region) adds exactly the transition from the current location to
\* the innermost loop's exit or continue-target; a suppressed one adds nothing;
\* no transition to the outer loop's condition, exit or update location is added.
C5_InnermostTarget ==
    \A j \in JumpEvents :
        Len(log[j].loops) >= 2
        => /\ log[j].added = IF Suppressed(log[j]) THEN {} ELSE {InnerJump(log[j])}
           /\ \A t \in log[j].added : t.to \notin OuterLocs(log[j])

\* a break and a continue were translated with two loops on the stack, the
\* inner one with an update clause, and each added its transition
C5_Witness ==
    /\ \E j \in JumpEvents :
           /\ log[j].e = "break" /\ Len(log[j].loops) = 2
           /\ log[j].added = {InnerJump(log[j])}
    /\ \E j \in JumpEvents :
           /\ log[j].e = "continue" /\ Len(log[j].loops) = 2
           /\ Innermost(log[j])[3] # 0
           /\ log[j].added = {InnerJump(log[j])}

(***************************************************************************)
(* C6.                                                                     *)
(***************************************************************************)
Kids(n) ==
    CASE n.k = "Compound" -> n.block_items
      [] n.k \in {"Case", "Default"} -> n.stmts
      [] n.k = "If" -> <<n.iftrue, n.iffalse>>
      [] n.k \in {"While", "DoWhile", "For", "Switch", "Label"} -> <<n.stmt>>
      [] n.k = "FuncDef" -> <<n.body>>
      [] OTHER -> <<>>

RECURSIVE HasGoto(_)
HasGoto(n) == n.k = "Goto" \/ \E j \in 1..Len(Kids(n)) : HasGoto(Kids(n)[j])

\* C6: the translation of a function whose body holds a goto, at whatever
\* position, ends in the unsupported-construct failure.
C6_GotoAlwaysFails ==
    \A i \in Exts : HasGoto(ast[i]) => Failed(i, "NotSupported")

(***************************************************************************)
(* C7, C8.  The updates a scanf call has to schedule.                      *)
(***************************************************************************)
IsCallOf(n, name) == n.k = "FuncCall" /\ n.name = ID(name) /\ n.args.k = "ExprList"
IsLiteral(n) == n.k = "Constant" /\ Head(n.value) = "\""
\* a definition whose body is one call of name with a literal format
IsIODef(n, name) ==
    /\ IsDef(n) /\ Len(BodyOf(n)) = 1 /\ IsCallOf(BodyOf(n)[1], name)
    /\ n.body.block_items[1].args.exprs # <<>>
    /\ IsLiteral(n.body.block_items[1].args.exprs[1])
FormatOf(n) == BodyOf(n)[1].args.exprs[1].value
Operands(n) == Tail(BodyOf(n)[1].args.exprs)

\* &v or &v[i]
IsTarget(a) ==
    /\ a.k = "UnaryOp" /\ a.op = "&"
    /\ \/ a.expr.k = "ID"
       \/ a.expr.k = "ArrayRef" /\ a.expr.name.k = "ID" /\ a.expr.subscript.k = "ID"
Targets(n) == Operands(n)
AllTargets(n) == \A j \in 1..Len(Targets(n)) : IsTarget(Targets(n)[j])
Specifiers(n) == findall(SubSeq(FormatOf(n), 2, Len(FormatOf(n)) - 1))

TagOf(f) ==
    CASE f \in {"%d", "%i", "%li", "%lli", "%ld", "%lld"} -> "int"
      [] f \in {"%f", "%lf"} -> "float"
      [] f = "%s" -> "string"
      [] f = "%c" -> "char"
      [] OTHER -> "*"

PopHead(tag) == Op("ListHead", <<Const(tag), Var(VAR_IN)>>)
PopInto(a, tag) ==
    IF a.expr.k = "ID" THEN [var |-> a.expr.name, expr |-> PopHead(tag)]
    ELSE [var |-> a.expr.name.name,
          expr |-> Op("ArrayAssign", <<Var(a.expr.name.name), Var(a.expr.subscript.name),
                                       PopHead(tag)>>)]
Advance == [var |-> VAR_IN, expr |-> Op("ListTail", <<Var(VAR_IN)>>)]

RECURSIVE ReadPairs(_, _, _)
\* for each target from the j-th on: pop a head typed by the j-th specifier
\* (untyped past the last specifier), then advance the input stream
ReadPairs(specs, targets, j) ==
    IF j > Len(targets) THEN <<>>
    ELSE <<PopInto(targets[j], IF j <= Len(specs) THEN TagOf(specs[j]) ELSE "*"), Advance>>
         \o ReadPairs(specs, targets, j + 1)

\* C7: a scanf call with a literal format of k recognized specifiers and k
\* address-of targets schedules exactly the 2k updates head-pop into the i-th
\* target typed by the i-th specifier, then tail-advance, in argument order.
C7_ScanfPairsInOrder ==
    \A i \in Exts :
        (/\ IsIODef(ast[i], "scanf") /\ AllTargets(ast[i])
         /\ Len(Specifiers(ast[i])) = Len(Targets(ast[i])))
        => /\ Done(i)
           /\ EntryUpdates(i) = ReadPairs(Specifiers(ast[i]), Targets(ast[i]), 1)

MismatchWarning == "Mismatch between format and number of argument(s) of 'scanf'"
IsMismatch(n) ==
    /\ IsIODef(n, "scanf") /\ AllTargets(n)
    /\ Len(Specifiers(n)) # Len(Targets(n))

\* C8: a scanf call with s specifiers and a # s valid targets does not fail,
\* records exactly one count-mismatch warning and schedules exactly a pairs,
\* typed by the specifiers as far as they go and untyped beyond.
C8_ScanfMismatchPadded ==
    /\ \A i \in Exts :
           IsMismatch(ast[i])
           => /\ Done(i)
              /\ EntryUpdates(i) = ReadPairs(Specifiers(ast[i]), Targets(ast[i]), 1)
    /\ Cardinality({j \in 1..Len(warns) : warns[j] = MismatchWarning})
           = Cardinality({i \in Exts : IsMismatch(ast[i])})

(***************************************************************************)
(* C9.  The update a printf call has to schedule.                          *)
(***************************************************************************)
RECURSIVE Normalized(_)
\* the format, read from the left, with %lf, %ld, %lld shortened
Normalized(f) ==
    IF f = "" THEN ""
    ELSE IF StartsWith(f, "%lld") THEN "%d" \o Normalized(SubSeq(f, 5, Len(f)))
    ELSE IF StartsWith(f, "%ld") THEN "%d" \o Normalized(SubSeq(f, 4, Len(f)))
    ELSE IF StartsWith(f, "%lf") THEN "%f" \o Normalized(SubSeq(f, 4, Len(f)))
    ELSE SubSeq(f, 1, 1) \o Normalized(Tail(f))

AllIDs(n) == \A j \in 1..Len(Operands(n)) : Operands(n)[j].k = "ID"
Written(n) ==
    Op("StrAppend",
       <<Var(VAR_OUT),
         Op("StrFormat", <<Const(Normalized(FormatOf(n)))>>
                         \o [j \in 1..Len(Operands(n)) |-> Var(Operands(n)[j].name)])>>)

\* C9: a printf call with a literal format schedules exactly one update, on the
\* output stream: StrAppend(out, StrFormat(fmt', the remaining arguments in
\* order)), fmt' being the format with %lf, %ld, %lld replaced by %f, %d, %d.
C9_PrintfSingleAppend ==
    \A i \in Exts :
        (IsIODef(ast[i], "printf") /\ AllIDs(ast[i]))
        => /\ Done(i)
           /\ EntryUpdates(i) = <<[var |-> VAR_OUT, expr |-> Written(ast[i])]>>

(***************************************************************************)
(* C10.  The parameters a definition or a prototype has to register.       *)
(***************************************************************************)
IsProto(n) == n.k = "Decl" /\ n.type.k = "FuncDecl"
Declared(n) == IF ArgsOf(n).k = "None" THEN <<>> ELSE ArgsOf(n).params
IsVoid(p) == p.k = "Typename" /\ p.type.type = TVoid
TypeOf(t) == TYPE_SYNONYMS(join(t.names, "_"))

RECURSIVE Registered(_, _)
\* the declared parameters from the j-th on, void entries left out
Registered(ps, j) ==
    IF j > Len(ps) THEN <<>>
    ELSE LET p == ps[j]
             rest == Registered(ps, j + 1)
         IN IF IsVoid(p) THEN rest
            ELSE IF p.k = "ID" THEN <<Pair(p.name, "int")>> \o rest
            ELSE IF p.k = "Typename" THEN <<Pair("_", TypeOf(p.type.type))>> \o rest
            ELSE IF p.type.k = "ArrayDecl"
            THEN <<Pair(p.type.type.declname, TypeOf(p.type.type.type) \o "[]")>> \o rest
            ELSE <<Pair(p.type.declname, TypeOf(p.type.type))>> \o rest

\* C10: a definition or prototype registers its declared parameters in order
\* with the void entries left out, and a type for each of them; with a lone
\* void it registers no parameter and no parameter type.
C10_VoidOmitted ==
    \A i \in Exts :
        ((IsDef(ast[i]) \/ IsProto(ast[i])) /\ Done(i))
        => LET ps == Registered(Declared(ast[i]), 1)
               types == fncs[i].types
           IN /\ fncs[i].params = ps
              /\ Len(types) >= Len(ps)
              /\ SubSeq(types, 1, Len(ps)) = [j \in 1..Len(ps) |-> <<ps[j].name, ps[j].type>>]
              /\ IsProto(ast[i]) => Len(types) = Len(ps)

(***************************************************************************)
(* C11.  When break and continue apply.                                    *)
(***************************************************************************)
\* the statement changed nothing: no location, no transition, no warning, the
\* current location and hasbcs as before
NoOp(e) ==
    /\ e.added = {} /\ e.newlocs = 0 /\ e.warned = <<>>
    /\ e.locafter = e.loc /\ e.hasbcsafter = e.hasbcs
\* the statement was dropped with one warning
WarnedOnly(e) ==
    /\ e.added = {} /\ e.newlocs = 0 /\ Len(e.warned) = 1
    /\ e.locafter = e.loc /\ e.hasbcsafter = e.hasbcs
\* the statement jumped: one fresh current location, one transition, hasbcs set
Jumped(e) ==
    /\ e.added = {InnerJump(e)} /\ e.newlocs = 1
    /\ e.locafter # e.loc /\ e.hasbcsafter /\ e.warned = <<>>

\* C11 as stated: wherever break is a no-op (inside a switch region, or with
\* break/continue generation suppressed) continue is a no-op too, also with a
\* non-empty loop stack; with an empty loop stack both record a warning and
\* are otherwise ignored.
C11_ContinueAsBreak ==
    \A j \in JumpEvents :
        /\ (log[j].inswitch \/ log[j].nobcs) => NoOp(log[j])
        /\ log[j].loops = <<>> => WarnedOnly(log[j])

\* C11 as amended: with break/continue generation suppressed both break and
\* continue are no-ops; inside a switch region a break is a no-op, while a
\* continue is treated as outside one; a statement that is not a no-op records
\* a warning and is otherwise ignored when the loop stack is empty, and jumps
\* to the innermost loop otherwise.
C11_Applicability ==
    \A j \in JumpEvents :
        LET e == log[j]
        IN IF e.nobcs \/ (e.e = "break" /\ e.inswitch) THEN NoOp(e)
           ELSE IF e.loops = <<>> THEN WarnedOnly(e)
           ELSE Jumped(e)

\* a switch inside a loop was translated whose break was skipped and whose
\* continue jumped to the loop, and a continue in a switch outside any loop
\* was dropped with a warning
C11_Witness ==
    /\ \E j \in JumpEvents :
           log[j].e = "break" /\ log[j].inswitch /\ log[j].loops # <<>> /\ NoOp(log[j])
    /\ \E j \in JumpEvents :
           /\ log[j].e = "continue" /\ log[j].inswitch /\ ~log[j].nobcs
           /\ log[j].loops # <<>> /\ Jumped(log[j])

(***************************************************************************)
(* C12.                                                                    *)
(***************************************************************************)
\* C12: every unsupported-construct failure carries the source line of the
\* construct it rejects.
C12_FailureCarriesLine ==
    err.t = "NotSupported" => err.line

(***************************************************************************)
(* C13.  Where an assignment's update stands among the updates of its      *)
(* statement.                                                              *)
(***************************************************************************)
RECURSIVE Tags(_)
\* one tag for each update that visiting n schedules, in the order of the
\* visit: "post" for a postfix ++/--, "other" for a prefix one and for all the
\* updates of an assignment
Tags(n) ==
    CASE n.k = "UnaryOp" ->
            Tags(n.expr) \o (IF n.op \in Postfix THEN <<"post">>
                             ELSE IF n.op \in Prefix THEN <<"other">> ELSE <<>>)
      [] n.k = "BinaryOp" -> Tags(n.left) \o Tags(n.right)
      [] n.k = "ArrayRef" -> Tags(n.name) \o Tags(n.subscript)
      [] n.k = "Assignment" ->
            [j \in 1..(Len(Tags(n.lvalue)) + Len(Tags(n.rvalue)) + 1) |-> "other"]
      [] OTHER -> <<>>

RECURSIVE Plain(_)
\* built from variables, constants, ++/--, binary operators, indexing, assignment
Plain(n) ==
    CASE n.k \in {"ID", "Constant"} -> TRUE
      [] n.k = "UnaryOp" -> n.op \in Postfix \cup Prefix /\ Plain(n.expr)
      [] n.k = "BinaryOp" -> Plain(n.left) /\ Plain(n.right)
      [] n.k = "ArrayRef" -> Plain(n.name) /\ Plain(n.subscript)
      [] n.k = "Assignment" -> Plain(n.lvalue) /\ Plain(n.rvalue)
      [] OTHER -> FALSE

RECURSIVE TagsOfAll(_)
TagsOfAll(stmts) == IF stmts = <<>> THEN <<>> ELSE Tags(Head(stmts)) \o TagsOfAll(Tail(stmts))

\* a definition whose statements are plain and whose last one is an assignment
EndsInAssignment(n) ==
    /\ IsDef(n) /\ BodyOf(n) # <<>>
    /\ \A j \in 1..Len(BodyOf(n)) : Plain(BodyOf(n)[j])
    /\ BodyOf(n)[Len(BodyOf(n))].k = "Assignment"
LastOf(n) == BodyOf(n)[Len(BodyOf(n))]
Assigned(a) == IF a.lvalue.k = "ID" THEN a.lvalue.name ELSE a.lvalue.name.name

\* C13: the update of an assignment stands ahead of every postfix update its
\* own right-hand side scheduled and after every other update scheduled before
\* it (by earlier statements, by its lvalue, by prefix operators and nested
\* assignments of its right-hand side); with no postfix update of its own
\* right-hand side it is last.
C13_AheadOfOwnPostfix ==
    \A i \in Exts :
        (EndsInAssignment(ast[i]) /\ Done(i))
        => LET a == LastOf(ast[i])
               L == EntryUpdates(i)
               earlier == TagsOfAll(SubSeq(BodyOf(ast[i]), 1, Len(BodyOf(ast[i])) - 1))
               before == [j \in 1..(Len(earlier) + Len(Tags(a.lvalue))) |-> "other"]
               tags == before \o Tags(a.rvalue)
               own == {q \in 1..Len(L) : L[q].var = Assigned(a)}
           IN /\ Len(L) = Len(tags) + 1
              /\ Cardinality(own) = 1
              /\ \A p \in own :
                     /\ \A q \in 1..(p - 1) : tags[q] = "other"
                     /\ \A q \in (p + 1)..Len(L) : tags[q - 1] = "post"

(***************************************************************************)
(* C14.  The in-switch flag against the nesting of rewritten switch bodies. *)
(***************************************************************************)
\* the number of rewritten switch bodies being visited when the j-th entry of
\* the log was made: those entered and not yet left
Depth(j) ==
    Cardinality({m \in 1..(j - 1) : log[m].e = "switch_enter"})
    - Cardinality({m \in 1..(j - 1) : log[m].e = "switch_exit"})

RejectedLoop == NotSupported("Loop inside switch", TRUE)

\* C14: the flag is set exactly while the rewritten body of some switch is
\* being visited, and visit_Switch leaves it as it found it: a loop visited
\* inside a switch body, at any depth, fails as unsupported and any other loop
\* is accepted; a break or continue sees the flag set exactly inside a body;
\* after a nested switch the flag is still set.
C14_FlagFollowsNesting ==
    \A j \in 1..Len(log) :
        LET e == log[j]
        IN /\ e.e \in {"loop", "break", "continue"} => (e.inswitch <=> Depth(j) > 0)
           /\ e.e = "loop" => ((j = Len(log) /\ err = RejectedLoop) <=> Depth(j) > 0)
           /\ e.e = "switch_enter" => (e.entry <=> Depth(j) > 0)
           /\ e.e = "switch_exit" =>
                  /\ e.inswitch = e.entry
                  /\ e.inswitch <=> Depth(j + 1) > 0

\* a switch nested in a case returned with the flag set and the break after
\* it was skipped, and later a loop that follows a completed switch was
\* accepted and a switch in its body translated
C14_Witness ==
    /\ err.t = "ok"
    /\ \E j \in 1..Len(log) :
           /\ log[j].e = "switch_exit" /\ log[j].inswitch
           /\ \E m \in (j + 1)..Len(log) : log[m].e = "break" /\ log[m].inswitch
    /\ \E j \in 1..Len(log) :
           /\ log[j].e = "switch_exit" /\ ~log[j].inswitch
           /\ \E m \in (j + 1)..Len(log) :
                  /\ log[m].e = "loop" /\ ~log[m].inswitch
                  /\ \E q \in (m + 1)..Len(log) : log[q].e = "switch_enter"

====
